---------------------------- MODULE Spec2Model ----------------------------
(***************************************************************************)
(* A model of numba's ArrayAnalysis pass (src/numba/array_analysis.py):    *)
(* the inference of shape equivalence classes for array variables, the     *)
(* merging of classes, the broadcast resolver and the generation of size   *)
(* calls, run over the instructions of one block.                          *)
(*                                                                         *)
(* Python lists are sequences (index i of the code is index i+1 here),     *)
(* dictionaries are functions whose DOMAIN is the key set.  A variable     *)
(* name is a 4-tuple <<base, suffix, dim, uid>>: a name of the function    *)
(* under analysis is <<"a", "", 0, 0>>, and the name mk_unique_var makes   *)
(* from  var.name + "size" + str(i)  is <<"a", "size", i, count>>.         *)
(*                                                                         *)
(* A raised exception ends the run: exc holds its type and the tables keep *)
(* what the handler had written before it was raised.                      *)
(***************************************************************************)
EXTENDS Integers, Sequences, FiniteSets, TLC

VARIABLES
    typemap,              \* self.typemap: name -> type
    calltypes,            \* self.calltypes: the getitem nodes registered (each maps to None)
    next_eq_class,        \* self.next_eq_class
    array_shape_classes,  \* self.array_shape_classes: array name -> list of class ids
    class_sizes,          \* self.class_sizes: class id -> list of size representatives
    array_size_vars,      \* self.array_size_vars: array name -> list of size variables
    numpy_globals,        \* self.numpy_globals
    map_calls,            \* self.map_calls
    numpy_calls,          \* self.numpy_calls: name -> attribute name
    array_attr_calls,     \* self.array_attr_calls: name -> <<attr, array name>>
    tuple_table,          \* self.tuple_table: name -> list of items
    unique_var_count,     \* the counter behind mk_unique_var
    body,                 \* the callee loads of block.body not yet scanned
    out_body,             \* _analyze_block's out_body
    block_body,           \* block.body as assigned at the end of _analyze_block
    pc,                   \* "scan": inside the loop of _analyze_block; "returned": run() returned;
                          \* "returned_again": run() of a second analysis object returned
    exc,                  \* the exception that ended the run, or "none"
    nstmts,               \* how many statements of the block have been scanned
    allocated,            \* observation: every id _get_next_class has returned
    merge_calls,          \* observation: the _merge_classes calls of the last instruction
    broadcast_calls,      \* observation: the _broadcast_and_match_shapes calls of the last instruction
    dot_calls,            \* observation: the dot rules applied by the last instruction
    last_assign,          \* observation: what _analyze_assign saw for the last instruction
    downgraded,           \* observation: the variables a conflict has downgraded
    last_inst,            \* observation: the instruction _analyze_inst was last called with
    merge_history,        \* observation: every _merge_classes call of the run, in order
    first_run,            \* observation: block.body and the shapes as the first run() left them
    sizes_at_loop,        \* observation: class_sizes when the last instruction came to line 109
    null_identity,        \* the interpreter: whether an attribute name 'NULL' is the same object
                          \* as the literal of lines 180 and 189: "yes", "no", or "unknown"
                          \* as long as no run has compared the two
    set_orders            \* the interpreter: the order in which each set built so far at
                          \* line 175 is iterated, by the sequence of its insertions

vars == << typemap, calltypes, next_eq_class, array_shape_classes, class_sizes,
           array_size_vars, numpy_globals, map_calls, numpy_calls,
           array_attr_calls, tuple_table, unique_var_count, body, out_body,
           block_body, pc, exc, nstmts, allocated, merge_calls,
           broadcast_calls, dot_calls, last_assign, downgraded, last_inst,
           merge_history, first_run, sizes_at_loop, null_identity,
           set_orders >>

----------------------------------------------------------------------------
(* Bounds of the model *)

\* the largest static rank of an array variable of the input
MaxRank == 2
\* the largest number of statements the block holds after the callee loads
MaxStmts == 4
\* the largest number of statements of a block the pass is run on a second time
MaxRerunStmts == 2

----------------------------------------------------------------------------
(* Names, types and IR nodes *)

NoName == << "", "", 0, 0 >>
V(s) == << s, "", 0, 0 >>
\* an integer constant in a list of size representatives or size variables
\* (class 0 is backed by the constant 1, line 29; a size variable not yet
\* chosen is the constant -1, line 107)
ConstSize(k) == << "", "const", k, 0 >>
\* mk_unique_var(var.name + suffix + str(i)) with the counter at count
mk_unique_var(name, suffix, i, count) == << name[1], suffix, i, count >>

ArrayT(n) == [kind |-> "Array", n |-> n]
Int64T == [kind |-> "Integer", n |-> 0]
UniTupleT(n) == [kind |-> "UniTuple", n |-> n]
ModuleT == [kind |-> "Module", n |-> 0]
FunctionT == [kind |-> "Function", n |-> 0]

\* the right-hand sides of ir.Assign: node is the IR class, op the Expr's op
Rhs(node, op, attr, func, operands, idx, isufunc) ==
    [node |-> node, op |-> op, attr |-> attr, func |-> func,
     operands |-> operands, idx |-> idx, isufunc |-> isufunc]
IrArg(name) == Rhs("Arg", "", "", NoName, << name >>, 0, FALSE)
IrVar(name) == Rhs("Var", "", "", NoName, << name >>, 0, FALSE)
\* ir.Global whose value has __name__ valname and is (or is not) a numpy.ufunc
IrGlobal(valname, isufunc) == Rhs("Global", "", valname, NoName, << >>, 0, isufunc)
IrConst(i) == Rhs("Const", "", "", NoName, << >>, i, FALSE)
ExprGetattr(value, attr) == Rhs("Expr", "getattr", attr, NoName, << value >>, 0, FALSE)
\* fn is "map" for an operator of BINARY_MAP_OP / UNARY_MAP_OP, "other" otherwise
ExprBinop(fn, lhs, rhs) == Rhs("Expr", "binop", fn, NoName, << lhs, rhs >>, 0, FALSE)
ExprUnary(fn, value) == Rhs("Expr", "unary", fn, NoName, << value >>, 0, FALSE)
ExprCall(func, args) == Rhs("Expr", "call", "", func, args, 0, FALSE)
ExprStaticGetitem(value, i, index_var) ==
    Rhs("Expr", "static_getitem", "", NoName, << value, index_var >>, i, FALSE)
\* an Expr with an op the pass has no rule for (getitem, build_list, ...)
ExprOther(op) == Rhs("Expr", op, "", NoName, << >>, 0, FALSE)
\* an array expression; names is what node.list_vars() returns
ExprArrayExpr(names) == Rhs("Expr", "arrayexpr", "", NoName, names, 0, FALSE)
ExprBuildTuple(items) == Rhs("Expr", "build_tuple", "", NoName, items, 0, FALSE)
\* ir.Const whose value is a tuple
IrConstTuple(items) == Rhs("Const", "tuple", "", NoName, items, 0, FALSE)

Assign(value, target) == [node |-> "Assign", target |-> target, value |-> value]

\* an element of a call's argument list: an ir.Var, or the bare string that
\* line 188 inserts for the receiver of an array method
VarArg(name) == [node |-> "Var", name |-> name]
StrArg(name) == [node |-> "str", name |-> name]


----------------------------------------------------------------------------
(* The analysis object as one record; the operators below take it and      *)
(* return it changed, with the value the method returns in ret.            *)

Self == [typemap |-> typemap, calltypes |-> calltypes,
         next_eq_class |-> next_eq_class,
         array_shape_classes |-> array_shape_classes,
         class_sizes |-> class_sizes, array_size_vars |-> array_size_vars,
         numpy_globals |-> numpy_globals, map_calls |-> map_calls,
         numpy_calls |-> numpy_calls, array_attr_calls |-> array_attr_calls,
         tuple_table |-> tuple_table, unique_var_count |-> unique_var_count,
         exc |-> "none", allocated |-> allocated,
         merge_calls |-> << >>, broadcast_calls |-> << >>, dot_calls |-> << >>,
         downgraded |-> downgraded, loop_sizes |-> << >>,
         null_identity |-> null_identity, null_compared |-> FALSE,
         set_orders |-> set_orders, set_pick |-> << >>]

Return(S, value) == [S |-> S, ret |-> value]
Raise(S, type) == [S |-> [S EXCEPT !.exc = type], ret |-> << >>]
Raised(r) == r.S.exc # "none"

\* d with d[k] = v (the key added when missing)
Put(d, k, v) == [x \in DOMAIN d \cup {k} |-> IF x = k THEN v ELSE d[x]]
\* d without the key k
Del(d, k) == [x \in DOMAIN d \ {k} |-> d[x]]
\* d.pop(k, [])
PopOr(d, k) == IF k \in DOMAIN d THEN d[k] ELSE << >>
InSeq(x, s) == \E i \in 1..Len(s) : s[i] = x
Reverse(s) == [i \in 1..Len(s) |-> s[Len(s) + 1 - i]]
Repeat(x, n) == [i \in 1..n |-> x]
MaxOf(set) == CHOOSE m \in set : \A x \in set : x <= m
MinOf(set) == CHOOSE m \in set : \A x \in set : m <= x

\* _isarray, lines 314-316
isarray(S, varname) == S.typemap[varname].kind = "Array"

\* _get_ndims, lines 332-333
get_ndims(S, arr) == Len(S.array_shape_classes[arr])

\* _get_next_class, lines 327-330
get_next_class(S) ==
    Return([S EXCEPT !.next_eq_class = @ + 1,
                     !.allocated = @ \cup {S.next_eq_class}],
           S.next_eq_class)

\* the observation of one _merge_classes call: its arguments, its result and
\* the tables before and after
MergeCall(pre, post, c1, c2, ret) ==
    [c1 |-> c1, c2 |-> c2, ret |-> ret,
     pre_shapes |-> pre.array_shape_classes, pre_sizes |-> pre.class_sizes,
     pre_next |-> pre.next_eq_class, pre_allocated |-> pre.allocated,
     post_shapes |-> post.array_shape_classes, post_sizes |-> post.class_sizes,
     post_next |-> post.next_eq_class]

\* the loop of lines 272-275 on one list
RenameClasses(l, c1, c2, new_class) ==
    [i \in 1..Len(l) |-> IF l[i] = c1 \/ l[i] = c2 THEN new_class ELSE l[i]]

\* a variant of lines 272-278 that joins the two lists in the other order
\* (line 278 with c2 before c1); MergeContract must tell it from the code
merge_tables_swapped(S, c1, c2, new_class) ==
    [S EXCEPT
       !.array_shape_classes =
           [v \in DOMAIN S.array_shape_classes |->
               RenameClasses(S.array_shape_classes[v], c1, c2, new_class)],
       !.class_sizes =
           [k \in (DOMAIN S.class_sizes \ {c1, c2}) \cup {new_class} |->
               IF k = new_class
               THEN PopOr(S.class_sizes, c2) \o PopOr(S.class_sizes, c1)
               ELSE S.class_sizes[k]]]

\* a variant of lines 272-278 that reads c2's list without removing it
\* (line 278 with get for the second pop); MergeTransitive must tell it from
\* the code
merge_tables_keeps_c2(S, c1, c2, new_class) ==
    [S EXCEPT
       !.array_shape_classes =
           [v \in DOMAIN S.array_shape_classes |->
               RenameClasses(S.array_shape_classes[v], c1, c2, new_class)],
       !.class_sizes =
           [k \in (DOMAIN S.class_sizes \ {c1}) \cup {new_class} |->
               IF k = new_class
               THEN PopOr(S.class_sizes, c1) \o PopOr(S.class_sizes, c2)
               ELSE S.class_sizes[k]]]

\* lines 272-278 with the tables S and the new class: the shapes renamed, the
\* two lists of size variables popped and joined under the new class
merge_tables(S, c1, c2, new_class) ==
    [S EXCEPT
       !.array_shape_classes =
           [v \in DOMAIN S.array_shape_classes |->
               RenameClasses(S.array_shape_classes[v], c1, c2, new_class)],
       !.class_sizes =
           [k \in (DOMAIN S.class_sizes \ {c1, c2}) \cup {new_class} |->
               IF k = new_class
               THEN PopOr(S.class_sizes, c1) \o PopOr(S.class_sizes, c2)
               ELSE S.class_sizes[k]]]

\* the end of _merge_classes: the call observed, the class returned
merge_return(S, T, c1, c2, ret) ==
    Return([T EXCEPT !.merge_calls = Append(@, MergeCall(S, T, c1, c2, ret))], ret)

\* lines 271-279, g being what _get_next_class returned
merge_into(S, g, c1, c2) ==
    merge_return(S, merge_tables(g.S, c1, c2, g.ret), c1, c2, g.ret)

\* _merge_classes, lines 266-279
merge_classes(S, c1, c2) ==
    IF c1 = c2 THEN merge_return(S, S, c1, c2, c1)
    ELSE merge_into(S, get_next_class(S), c1, c2)

\* lines 296-299: zeros prepended until the list has ndims entries
PadLeft(e, ndims) == Repeat(0, ndims - Len(e)) \o e

RECURSIVE match_operands(_, _, _, _, _)
\* the inner loop goes on to operand j + 1 with what the step at operand j left
match_next(r, eqs, i, j) == match_operands(r.S, eqs, i, j + 1, r.ret)

\* a variant of lines 304-309 without the test e[i] != 0 of line 306: a
\* padded entry is merged like any class; BroadcastKeepsSingleClass must tell
\* it from the code
match_operands_merges_padding(S, eqs, i, j, c) ==
    IF j > Len(eqs) THEN Return(S, c)
    ELSE match_next(IF eqs[j][i] # c
                    THEN IF c = 0 THEN Return(S, eqs[j][i])
                         ELSE merge_classes(S, c, eqs[j][i])
                    ELSE Return(S, c),
                    eqs, i, j)

\* a variant of lines 304-309 without the test c == 0 of line 306: a running
\* class 0 is merged with the operand's class; ClassZeroReserved must tell it
\* from the code
match_operands_merges_zero(S, eqs, i, j, c) ==
    IF j > Len(eqs) THEN Return(S, c)
    ELSE match_next(IF eqs[j][i] # 0 /\ eqs[j][i] # c
                    THEN merge_classes(S, c, eqs[j][i])
                    ELSE Return(S, c),
                    eqs, i, j)

\* the inner loop of lines 304-309 at dimension i, from operand j on, with
\* the running class c
match_operands(S, eqs, i, j, c) ==
    IF j > Len(eqs) THEN Return(S, c)
    ELSE match_next(IF eqs[j][i] # 0 /\ eqs[j][i] # c
                    THEN IF c = 0 THEN Return(S, eqs[j][i])
                         ELSE merge_classes(S, c, eqs[j][i])
                    ELSE Return(S, c),
                    eqs, i, j)

RECURSIVE match_dims(_, _, _, _)
\* line 310, then the outer loop goes on to dimension i + 1
dims_next(r, eqs, i, out_eq) == match_dims(r.S, eqs, i + 1, Append(out_eq, r.ret))

\* the outer loop of lines 302-310 from dimension i on; out_eq holds the
\* classes of the dimensions before i
match_dims(S, eqs, i, out_eq) ==
    IF i > Len(eqs[1]) THEN Return(S, out_eq)
    ELSE dims_next(match_operands(S, eqs, i, 1, eqs[1][i]), eqs, i, out_eq)

\* whether the loop of lines 290-294 gets past the operand a
CanCopyShape(S, a) == isarray(S, a) /\ a \in DOMAIN S.array_shape_classes

\* the observation of one _broadcast_and_match_shapes call: the operands, the
\* padded copies, the shape returned and the shape table at the return
BroadcastCall(S, args, eqs, out_eq) ==
    [args |-> args, eqs |-> eqs, out_eq |-> out_eq,
     shapes |-> S.array_shape_classes]

\* line 312, r being what the loops left
broadcast_return(r, args, eqs) ==
    Return([r.S EXCEPT !.broadcast_calls =
                          Append(@, BroadcastCall(r.S, args, eqs, r.ret))],
           r.ret)

\* lines 300-312 on the padded copies eqs
broadcast_padded(S, args, eqs) ==
    broadcast_return(match_dims(S, eqs, 1, << >>), args, eqs)

\* lines 295-299 on the copies of the operands' shapes
broadcast_copies(S, args, copies) ==
    broadcast_padded(S, args,
        [k \in 1..Len(args) |->
            PadLeft(copies[k], MaxOf({Len(copies[j]) : j \in 1..Len(args)}))])

\* the exception of the loop of lines 290-294 at the first operand it stops at
broadcast_raise(S, args, k) ==
    IF isarray(S, args[k]) THEN Raise(S, "KeyError")     \* line 292
    ELSE Raise(S, "AttributeError")                      \* line 294: eqs.append = [0]

\* _broadcast_and_match_shapes, lines 281-312; args is a list of names
broadcast_and_match_shapes(S, args) ==
    IF ~ \E k \in 1..Len(args) : isarray(S, args[k])
    THEN Raise(S, "AssertionError")                      \* line 287
    ELSE IF \E k \in 1..Len(args) : ~ CanCopyShape(S, args[k])
    THEN broadcast_raise(S, args,
             MinOf({j \in 1..Len(args) : ~ CanCopyShape(S, args[j])}))
    ELSE broadcast_copies(S, args,
             [k \in 1..Len(args) |-> S.array_shape_classes[args[k]]])

\* the observation of one application of the dot rule: the operands, their
\* shapes and the two classes before the merge, the shape returned and the
\* shape table at the return
DotCall(S, in1, in2, shape1, shape2, c1, c2, c_out) ==
    [in1 |-> in1, in2 |-> in2, shape1 |-> shape1, shape2 |-> shape2,
     c1 |-> c1, c2 |-> c2, c_out |-> c_out, shapes |-> S.array_shape_classes]

\* lines 236-242 on the shapes as they stand after the merge
dot_out(now1, now2) ==
    SubSeq(now1, 1, Len(now1) - 1)
      \o SubSeq(now2, 1, Len(now2) - 2)
      \o (IF Len(now2) > 1 THEN << now2[Len(now2)] >> ELSE << >>)

\* lines 236-244, m being what _merge_classes returned
dot_return(m, in1, in2, shape1, shape2, c1, c2) ==
    Return([m.S EXCEPT !.dot_calls =
               Append(@, DotCall(m.S, in1, in2, shape1, shape2, c1, c2,
                                 dot_out(m.S.array_shape_classes[in1],
                                         m.S.array_shape_classes[in2])))],
           dot_out(m.S.array_shape_classes[in1], m.S.array_shape_classes[in2]))

\* lines 226-244 on the recorded shapes of the two operands
dot_classes(S, in1, in2, shape1, shape2, c1, c2) ==
    dot_return(merge_classes(S, c1, c2), in1, in2, shape1, shape2, c1, c2)

\* a variant of lines 224-234 that always contracts in2's last dimension
\* (line 232 on both branches); DotShape must tell it from the code
dot_shapes_last(S, in1, in2, shape1, shape2) ==
    IF Len(shape1) = 0 \/ Len(shape2) = 0 THEN Raise(S, "IndexError")
    ELSE dot_classes(S, in1, in2, shape1, shape2,
                     shape1[Len(shape1)], shape2[Len(shape2)])

\* lines 224-244
dot_shapes(S, in1, in2, shape1, shape2) ==
    \* lines 226-232: index -1 or -2 of an empty list
    IF Len(shape1) = 0 \/ Len(shape2) = 0 THEN Raise(S, "IndexError")
    ELSE dot_classes(S, in1, in2, shape1, shape2,
                     shape1[Len(shape1)],
                     IF Len(shape2) = 1 THEN shape2[1] ELSE shape2[Len(shape2) - 1])

\* the dot rule of _analyze_np_call, lines 215-244
analyze_dot(S, args) ==
    IF Len(args) # 2 /\ Len(args) # 3 THEN Raise(S, "AssertionError")   \* line 221
    ELSE IF args[1].node # "Var" \/ args[2].node # "Var"
    THEN Raise(S, "AttributeError")                   \* lines 222-223: .name of a str
    ELSE IF args[1].name \notin DOMAIN S.array_shape_classes
              \/ args[2].name \notin DOMAIN S.array_shape_classes
    THEN Raise(S, "KeyError")                         \* lines 224-225
    ELSE dot_shapes(S, args[1].name, args[2].name,
                    S.array_shape_classes[args[1].name],
                    S.array_shape_classes[args[2].name])

RECURSIVE classes_from_tuple(_, _, _, _)
\* lines 262-263 for element i, g being what _get_next_class returned, and on
tuple_next(S, g, shape_arg, i, out_eqs) ==
    IF shape_arg \notin DOMAIN S.tuple_table THEN Raise(g.S, "KeyError")
    ELSE IF i >= Len(S.tuple_table[shape_arg]) THEN Raise(g.S, "IndexError")
    ELSE classes_from_tuple(
             [g.S EXCEPT !.class_sizes =
                            Put(@, g.ret, << S.tuple_table[shape_arg][i + 1] >>)],
             shape_arg, i + 1, Append(out_eqs, g.ret))

\* the loop of lines 260-263 from element i (0-based) on
classes_from_tuple(S, shape_arg, i, out_eqs) ==
    IF i >= S.typemap[shape_arg].n THEN Return(S, out_eqs)
    ELSE tuple_next(S, get_next_class(S), shape_arg, i, out_eqs)

\* _get_classes_from_shape, lines 251-264
get_classes_from_shape(S, shape_arg) ==
    IF S.typemap[shape_arg].kind = "Integer"
    THEN Raise(get_next_class(S).S, "NameError")       \* line 256: args is not defined
    ELSE IF S.typemap[shape_arg].kind # "UniTuple"
    THEN Raise(S, "AssertionError")                    \* line 258
    ELSE classes_from_tuple(S, shape_arg, 0, << >>)

\* UFUNC_MAP_OP, line 337: the __name__ of every ufunc of
\* npydecl.supported_ufuncs (numpy.divide is named divide or true_divide,
\* depending on the numpy version)
UFUNC_MAP_OP ==
    {"add", "subtract", "multiply", "logaddexp", "logaddexp2", "true_divide",
     "divide", "floor_divide", "negative", "power", "remainder", "fmod",
     "absolute", "fabs", "rint", "sign", "conjugate", "exp", "exp2", "log",
     "log2", "log10", "expm1", "log1p", "sqrt", "square", "reciprocal",
     "sin", "cos", "tan", "arcsin", "arccos", "arctan", "arctan2", "hypot",
     "sinh", "cosh", "tanh", "arcsinh", "arccosh", "arctanh", "deg2rad",
     "rad2deg", "degrees", "radians",
     "bitwise_and", "bitwise_or", "bitwise_xor", "invert", "left_shift",
     "right_shift",
     "greater", "greater_equal", "less", "less_equal", "not_equal", "equal",
     "logical_and", "logical_or", "logical_xor", "logical_not", "maximum",
     "minimum", "fmax", "fmin",
     "isfinite", "isinf", "isnan", "signbit", "copysign", "nextafter",
     "ldexp", "floor", "ceil", "trunc", "spacing"}

\* _analyze_np_call, lines 200-249; args is a list of VarArg / StrArg
analyze_np_call(S, call_name, args) ==
    IF call_name = "transpose" \/ call_name \in {"empty_like", "zeros_like", "ones_like"}
    THEN IF Len(args) = 0 THEN Raise(S, "IndexError")
         ELSE IF args[1].node # "Var" THEN Raise(S, "AttributeError")
         ELSE IF args[1].name \notin DOMAIN S.array_shape_classes
         THEN Raise(S, "KeyError")
         ELSE IF call_name = "transpose"
         THEN Return(S, Reverse(S.array_shape_classes[args[1].name]))  \* lines 203-205
         ELSE Return(S, S.array_shape_classes[args[1].name])           \* line 210
    ELSE IF call_name \in {"empty", "zeros", "ones"}
    THEN IF Len(args) = 0 THEN Raise(S, "IndexError")
         ELSE IF args[1].node # "Var" THEN Raise(S, "AttributeError")
         ELSE get_classes_from_shape(S, args[1].name)                  \* line 207
    ELSE IF call_name = "reshape"
    THEN IF Len(args) < 2 THEN Raise(S, "IndexError")
         ELSE IF args[2].node # "Var" THEN Raise(S, "AttributeError")
         ELSE get_classes_from_shape(S, args[2].name)                  \* line 214
    ELSE IF call_name = "dot" THEN analyze_dot(S, args)
    ELSE IF call_name \in UFUNC_MAP_OP
    THEN IF \E k \in 1..Len(args) : args[k].node # "Var"
         THEN Raise(S, "AttributeError")               \* line 246: a.name of a str
         ELSE broadcast_and_match_shapes(S, [k \in 1..Len(args) |-> args[k].name])
    ELSE Return(S, << -1 >>)                            \* lines 248-249

RECURSIVE add_classes(_, _, _)
\* lines 323-324 once, g being what _get_next_class returned, and on
add_next(g, varname, n) ==
    add_classes([g.S EXCEPT !.array_shape_classes[varname] = Append(@, g.ret)],
                varname, n - 1)

\* the loop of lines 322-324: n more fresh classes appended to varname's list
add_classes(S, varname, n) ==
    IF n = 0 THEN S ELSE add_next(get_next_class(S), varname, n)

\* line 325
add_return(T, varname) == Return(T, T.array_shape_classes[varname])

\* _add_array_corr, lines 318-325
add_array_corr(S, varname) ==
    IF varname \in DOMAIN S.array_shape_classes THEN Raise(S, "AssertionError")
    ELSE add_return(add_classes([S EXCEPT !.array_shape_classes = Put(@, varname, << >>)],
                                varname, S.typemap[varname].n),
                    varname)

\* the argument list of a call as _analyze_np_call gets it
CallArgs(node) == [k \in 1..Len(node.operands) |-> VarArg(node.operands[k])]

\* call_name as lines 184-187 leave it for a callee found in a table
table_call_name(S, node) ==
    IF node.func \in DOMAIN S.numpy_calls THEN S.numpy_calls[node.func]
    ELSE S.array_attr_calls[node.func][1]

\* args as lines 181-188 leave it for a callee found in a table
table_call_args(S, node) ==
    IF node.func \in DOMAIN S.numpy_calls THEN CallArgs(node)
    ELSE << StrArg(S.array_attr_calls[node.func][2]) >> \o CallArgs(node)

\* lines 189-190 for a callee found in a table.  The assert compares by
\* identity: an attribute that is itself named NULL passes or fails with the
\* interpreter's interning of the two strings
table_call(S, node) ==
    IF table_call_name(S, node) = "NULL"
    THEN IF S.null_identity = "yes"
         THEN Raise([S EXCEPT !.null_compared = TRUE], "AssertionError")
         ELSE analyze_np_call([S EXCEPT !.null_compared = TRUE], "NULL",
                              table_call_args(S, node))
    ELSE analyze_np_call(S, table_call_name(S, node), table_call_args(S, node))

\* the call rule of _analyze_rhs_classes, lines 179-190
analyze_call(S, node) ==
    IF InSeq(node.func, S.map_calls)
    THEN IF Len(node.operands) = 0 THEN Raise(S, "IndexError")
         ELSE IF node.operands[1] \notin DOMAIN S.array_shape_classes
         THEN Raise(S, "KeyError")
         ELSE Return(S, S.array_shape_classes[node.operands[1]])       \* line 183
    ELSE IF node.func \in DOMAIN S.numpy_calls \/ node.func \in DOMAIN S.array_attr_calls
    THEN table_call(S, node)
    ELSE Raise(S, "AssertionError")                    \* line 189: call_name is the literal

\* names with x added at its end, unless it is there
insert_name(names, x) == IF InSeq(x, names) THEN names ELSE Append(names, x)

RECURSIVE insertions(_)
\* the names in the order in which the comprehension of line 175 inserts
\* them into the set: list_vars() without the repetitions
insertions(names) ==
    IF names = << >> THEN << >>
    ELSE insert_name(insertions(SubSeq(names, 1, Len(names) - 1)), names[Len(names)])

\* list(args) of line 176 for the set built by the insertions ins: the order
\* a set built so was iterated in before, or the one the interpreter takes
\* now (the order depends on the hash seed and, when hashes collide, on the
\* order of insertion)
set_as_list(S, ins) ==
    IF ins \in DOMAIN S.set_orders THEN S.set_orders[ins] ELSE S.set_pick[ins]

\* the arrayexpr rule of _analyze_rhs_classes, lines 173-176
analyze_arrayexpr(S, node) ==
    broadcast_and_match_shapes(
        [S EXCEPT !.set_orders = Put(@, insertions(node.operands),
                                     set_as_list(S, insertions(node.operands)))],
        set_as_list(S, insertions(node.operands)))

\* _analyze_rhs_classes, lines 153-198
analyze_rhs_classes(S, node) ==
    IF node.node = "Arg"
    THEN IF ~ isarray(S, node.operands[1]) THEN Raise(S, "AssertionError")
         ELSE add_array_corr(S, node.operands[1])
    ELSE IF node.node = "Var"
    THEN IF node.operands[1] \notin DOMAIN S.array_shape_classes
         THEN Raise(S, "KeyError")
         ELSE Return(S, S.array_shape_classes[node.operands[1]])
    ELSE IF node.node = "Expr"
    THEN IF node.op = "unary" /\ node.attr = "map"
         THEN IF ~ isarray(S, node.operands[1]) THEN Raise(S, "AssertionError")
              ELSE IF node.operands[1] \notin DOMAIN S.array_shape_classes
              THEN Raise(S, "KeyError")
              ELSE Return(S, S.array_shape_classes[node.operands[1]])
         ELSE IF node.op \in {"binop", "inplace_binop"} /\ node.attr = "map"
         THEN broadcast_and_match_shapes(S, node.operands)
         ELSE IF node.op = "arrayexpr" THEN analyze_arrayexpr(S, node)
         ELSE IF node.op = "cast"
         THEN IF node.operands[1] \notin DOMAIN S.array_shape_classes
              THEN Raise(S, "KeyError")
              ELSE Return(S, S.array_shape_classes[node.operands[1]])
         ELSE IF node.op = "call" THEN analyze_call(S, node)
         ELSE IF node.op = "getattr" /\ isarray(S, node.operands[1])
         THEN IF node.attr = "T"
              THEN analyze_np_call(S, "transpose", << VarArg(node.operands[1]) >>)
              ELSE Return(S, << >>)                     \* falls through to line 198
         ELSE Return(S, << >>)                          \* lines 196-198
    ELSE Return(S, << >>)                               \* lines 197-198

\* the tables of lines 78-92, filled from any assignment
record_symbols(S, lhs, rhs) ==
    IF rhs.node = "Global"
    THEN IF rhs.attr = ""
         \* line 82: the value has no __name__; line 81 has run
         THEN [S EXCEPT !.map_calls = IF rhs.isufunc THEN Append(@, lhs) ELSE @,
                        !.exc = "AttributeError"]
         ELSE [S EXCEPT !.map_calls = IF rhs.isufunc THEN Append(@, lhs) ELSE @,
                        !.numpy_globals = IF rhs.attr = "numpy" THEN Append(@, lhs) ELSE @]
    ELSE IF rhs.node = "Expr" /\ rhs.op = "getattr"
    THEN IF InSeq(rhs.operands[1], S.numpy_globals)
         THEN [S EXCEPT !.numpy_calls = Put(@, lhs, rhs.attr)]
         ELSE IF isarray(S, rhs.operands[1])
         THEN [S EXCEPT !.array_attr_calls = Put(@, lhs, << rhs.attr, rhs.operands[1] >>)]
         ELSE S
    ELSE IF (rhs.node = "Expr" /\ rhs.op = "build_tuple")
              \/ (rhs.node = "Const" /\ rhs.op = "tuple")
    THEN [S EXCEPT !.tuple_table = Put(@, lhs, rhs.operands)]
    ELSE S

\* the three nodes of _gen_size_call, lines 131-149
size_call_nodes(var, i, attr_var, const_var, size_var) ==
    << Assign(ExprGetattr(var, "shape"), attr_var),
       Assign(IrConst(i), const_var),
       Assign(ExprStaticGetitem(attr_var, i, const_var), size_var) >>

\* lines 130-150 with the three fresh names
gen_size_call_named(S, var, i, attr_var, const_var, size_var) ==
    Return([S EXCEPT
              !.typemap =
                  [x \in DOMAIN S.typemap \cup {attr_var, const_var, size_var} |->
                      IF x = attr_var THEN UniTupleT(get_ndims(S, var))
                      ELSE IF x \in {const_var, size_var} THEN Int64T
                      ELSE S.typemap[x]],
              !.calltypes = @ \cup {ExprStaticGetitem(attr_var, i, const_var)},
              !.unique_var_count = @ + 3],
           size_call_nodes(var, i, attr_var, const_var, size_var))

\* _gen_size_call, lines 128-150; i is the 0-based dimension
gen_size_call(S, var, i) ==
    gen_size_call_named(S, var, i,
        mk_unique_var(var, "_sh_attr", i, S.unique_var_count),
        mk_unique_var(var, "$const", i, S.unique_var_count + 1),
        mk_unique_var(var, "size", i, S.unique_var_count + 2))

RECURSIVE size_loop(_, _, _, _, _)
\* lines 113-119 for dimension i of class corr, g being what _gen_size_call
\* returned, and on
size_new(g, lhs, rhs_corr, i, corr, size_calls) ==
    size_loop([g.S EXCEPT
                 !.class_sizes = IF corr # -1 THEN Put(@, corr, << g.ret[3].target >>)
                                 ELSE @,
                 !.array_size_vars[lhs][i + 1] = g.ret[3].target],
              lhs, rhs_corr, i + 1, size_calls \o g.ret)

\* a variant of lines 109-123 that never takes the branch of line 123 and
\* generates a size variable for every dimension; AddTwoParameters must tell
\* it from the code
size_loop_always_new(S, lhs, rhs_corr, i, size_calls) ==
    IF i >= Len(rhs_corr) THEN Return(S, size_calls)
    ELSE size_new(gen_size_call(S, lhs, i), lhs, rhs_corr, i, rhs_corr[i + 1], size_calls)

\* the loop of lines 109-123 from dimension i (0-based) on
size_loop(S, lhs, rhs_corr, i, size_calls) ==
    IF i >= Len(rhs_corr) THEN Return(S, size_calls)
    ELSE IF rhs_corr[i + 1] = -1 \/ rhs_corr[i + 1] \notin DOMAIN S.class_sizes
    THEN size_new(gen_size_call(S, lhs, i), lhs, rhs_corr, i, rhs_corr[i + 1], size_calls)
    ELSE IF Len(S.class_sizes[rhs_corr[i + 1]]) = 0
    THEN Raise(S, "IndexError")                        \* line 123: [0] of an empty list
    ELSE size_loop([S EXCEPT !.array_size_vars[lhs][i + 1] =
                                S.class_sizes[rhs_corr[i + 1]][1]],
                   lhs, rhs_corr, i + 1, size_calls)

\* what _analyze_assign saw: the target; whether it is an array; whether it
\* had a recorded shape when the handler began (had_shape); whether line 97
\* returned (inferred), what it returned (rhs_corr) and the shape recorded for
\* the target at line 98, if any (has_prior, prior); whether the handler
\* returned, and the nodes it returned
AssignSeen(lhs, is_array, had_shape, inferred, has_prior, prior, rhs_corr, returned, size_calls) ==
    [is_assign |-> TRUE, target |-> lhs, is_array |-> is_array,
     had_shape |-> had_shape, inferred |-> inferred,
     has_prior |-> has_prior, prior |-> prior, rhs_corr |-> rhs_corr,
     returned |-> returned, size_calls |-> size_calls]

Handled(S, ret, seen) == [S |-> S, ret |-> ret, seen |-> seen]

\* lines 126, l being what the loop of lines 109-123 left
assign_return(l, lhs, had_shape, has_prior, prior, rhs_corr) ==
    Handled(l.S, l.ret,
            AssignSeen(lhs, TRUE, had_shape, TRUE, has_prior, prior, rhs_corr,
                       ~ Raised(l), l.ret))

\* a variant of lines 101-105 whose vector of -1 has the length of the new
\* inference instead of _get_ndims(lhs); ShapeLengthKept must tell it from
\* the code
conflict_new_length(r, lhs, had_shape) ==
    Handled([r.S EXCEPT
               !.array_shape_classes[lhs] = Repeat(-1, Len(r.ret)),
               !.array_size_vars = Del(@, lhs),
               !.downgraded = @ \cup {lhs}],
            << >>,
            AssignSeen(lhs, TRUE, had_shape, TRUE, TRUE,
                       r.S.array_shape_classes[lhs], r.ret, TRUE, << >>))

\* a variant of lines 101-105 without the pop of line 104; ConflictDowngrade
\* must tell it from the code
conflict_keeps_sizes(r, lhs, had_shape) ==
    Handled([r.S EXCEPT
               !.array_shape_classes[lhs] = Repeat(-1, Len(@)),
               !.downgraded = @ \cup {lhs}],
            << >>,
            AssignSeen(lhs, TRUE, had_shape, TRUE, TRUE,
                       r.S.array_shape_classes[lhs], r.ret, TRUE, << >>))

\* the conflict branch, lines 101-105, r being what _analyze_rhs_classes
\* returned
conflict(r, lhs, had_shape) ==
    Handled([r.S EXCEPT
               !.array_shape_classes[lhs] = Repeat(-1, Len(@)),
               !.array_size_vars = Del(@, lhs),
               !.downgraded = @ \cup {lhs}],
            << >>,
            AssignSeen(lhs, TRUE, had_shape, TRUE, TRUE,
                       r.S.array_shape_classes[lhs], r.ret, TRUE, << >>))

\* lines 98-126, r being what _analyze_rhs_classes returned
assign_record(r, lhs, had_shape) ==
    IF Raised(r)
    THEN Handled(r.S, << >>,
                 AssignSeen(lhs, TRUE, had_shape, FALSE, FALSE, << >>, << >>,
                            FALSE, << >>))
    ELSE IF lhs \in DOMAIN r.S.array_shape_classes
              /\ r.S.array_shape_classes[lhs] # r.ret
    THEN conflict(r, lhs, had_shape)
    ELSE assign_return(
             size_loop([r.S EXCEPT
                          !.loop_sizes = r.S.class_sizes,
                          !.array_shape_classes = Put(@, lhs, r.ret),
                          !.array_size_vars =
                              Put(@, lhs, Repeat(ConstSize(-1), Len(r.ret)))],
                       lhs, r.ret, 0, << >>),
             lhs, had_shape,
             lhs \in DOMAIN r.S.array_shape_classes,
             IF lhs \in DOMAIN r.S.array_shape_classes
             THEN r.S.array_shape_classes[lhs] ELSE << >>,
             r.ret)

\* lines 94-126, S1 being the object after lines 78-92
assign_shape(S1, lhs, rhs, had_shape) ==
    IF S1.exc # "none"
    THEN Handled(S1, << >>,
                 AssignSeen(lhs, FALSE, had_shape, FALSE, FALSE, << >>, << >>,
                            FALSE, << >>))
    ELSE IF ~ isarray(S1, lhs)
    THEN Handled(S1, << >>,
                 AssignSeen(lhs, FALSE, had_shape, FALSE, FALSE, << >>, << >>,
                            TRUE, << >>))
    ELSE assign_record(analyze_rhs_classes(S1, rhs), lhs, had_shape)

\* _analyze_assign, lines 75-126
analyze_assign(S, assign) ==
    assign_shape(record_symbols(S, assign.target, assign.value),
                 assign.target, assign.value,
                 assign.target \in DOMAIN S.array_shape_classes)

\* an instruction that is not an ir.Assign (a jump, a return, a del)
OtherInst == [node |-> "Jump", target |-> NoName, value |-> ExprOther("")]

NothingSeen ==
    [is_assign |-> FALSE, target |-> NoName, is_array |-> FALSE,
     had_shape |-> FALSE, inferred |-> FALSE,
     has_prior |-> FALSE, prior |-> << >>, rhs_corr |-> << >>,
     returned |-> TRUE, size_calls |-> << >>]

\* _analyze_inst, lines 70-73
analyze_inst(S, inst) ==
    IF inst.node = "Assign" THEN analyze_assign(S, inst)
    ELSE Handled(S, << >>, NothingSeen)

----------------------------------------------------------------------------
(* The input: a block that first loads the callees (the numpy module, its  *)
(* attributes dot and foo, a function of the user's module) and then holds *)
(* at most MaxStmts statements over the array variables a, b, c.  The type *)
(* map gives every variable its static type, as type inference would: the  *)
(* statements are well typed, and a statement reads only variables         *)
(* assigned earlier in the block.  The variables are interchangeable to    *)
(* the pass, so a statement assigns to a variable already assigned or to   *)
(* the first one that is not.  numpy has no function foo: it stands for    *)
(* any name _analyze_np_call has no rule for.                              *)

VarSeq == << V("a"), V("b"), V("c") >>
Vars == {VarSeq[i] : i \in 1..Len(VarSeq)}
NumpyModule == V("$np")
Callee(fname) == << "$" , fname, 0, 0 >>
Prelude ==
    << Assign(IrGlobal("numpy", FALSE), NumpyModule),
       Assign(ExprGetattr(NumpyModule, "dot"), Callee("dot")),
       Assign(ExprGetattr(NumpyModule, "foo"), Callee("foo")),
       Assign(IrGlobal("user_fn", FALSE), Callee("user_fn")),
       Assign(ExprGetattr(NumpyModule, "empty"), Callee("empty")),
       Assign(ExprGetattr(NumpyModule, "reshape"), Callee("reshape")),
       Assign(ExprGetattr(NumpyModule, "transpose"), Callee("transpose")),
       Assign(ExprGetattr(NumpyModule, "cos"), Callee("cos")),
       Assign(ExprGetattr(NumpyModule, "NULL"), Callee("NULL")) >>
\* the name a bound array method (a.transpose) is loaded into
Method == << "$", "method", 0, 0 >>
\* a scalar integer variable of the function under analysis
Scalar == V("n")
Temps == {Prelude[i].target : i \in 1..Len(Prelude)} \cup {Method}

TypeMaps ==
    {[x \in Vars \cup Temps \cup {Scalar} |->
         IF x \in Vars THEN ArrayT(rank[x])
         ELSE IF x = Scalar THEN Int64T
         ELSE IF x = NumpyModule THEN ModuleT ELSE FunctionT] :
     rank \in [Vars -> 1..MaxRank]}

Rank(x) == typemap[x].n
Defined == DOMAIN array_shape_classes
Targets ==
    {VarSeq[i] : i \in 1..(IF Cardinality(Defined) < Len(VarSeq)
                           THEN Cardinality(Defined) + 1 ELSE Len(VarSeq))}
MaxRankOf(y, z) == IF Rank(y) >= Rank(z) THEN Rank(y) ELSE Rank(z)
\* the assigned variables of x's rank
SameRank(x) == {d \in Defined : Rank(d) = Rank(x)}
\* the first of them in the order of VarSeq, as a set (empty when there is none)
FirstSameRank(x) ==
    {d \in SameRank(x) : \A i, j \in 1..Len(VarSeq) :
                            VarSeq[i] = d /\ VarSeq[j] \in SameRank(x) => i <= j}

\* the load of the bound method transpose of the first variable, once it is
\* assigned
MethodLoads ==
    IF VarSeq[1] \in Defined /\ Method \notin DOMAIN array_attr_calls
    THEN {Assign(ExprGetattr(VarSeq[1], "transpose"), Method)}
    ELSE {}

\* the calls of the bound method, once it is loaded
MethodCalls(x) ==
    IF Method \in DOMAIN array_attr_calls /\ Rank(x) = Rank(VarSeq[1])
    THEN {Assign(ExprCall(Method, << >>), x)}
    ELSE {}

\* the statements with the scalar as the shape argument of an array creation
\* or of reshape, or as an operand of an elementwise operation
ScalarStatements(x) ==
    IF Rank(x) = 1
    THEN {Assign(ExprCall(Callee("empty"), << Scalar >>), x)}
           \cup {Assign(ExprCall(Callee("reshape"), << y, Scalar >>), x) :
                    y \in FirstSameRank(x)}
           \cup {Assign(ExprBinop("map", y, Scalar), x) : y \in FirstSameRank(x)}
           \cup {Assign(ExprBinop("map", Scalar, y), x) : y \in FirstSameRank(x)}
           \cup {Assign(ExprArrayExpr(<< y, Scalar >>), x) : y \in FirstSameRank(x)}
    ELSE {}

\* the array expressions over the first two variables, once they are
\* assigned, with list_vars() in either order
ArrayExprs(x) ==
    IF VarSeq[1] \in Defined /\ VarSeq[2] \in Defined
         /\ MaxRankOf(VarSeq[1], VarSeq[2]) = Rank(x)
    THEN {Assign(ExprArrayExpr(<< VarSeq[1], VarSeq[2] >>), x),
          Assign(ExprArrayExpr(<< VarSeq[2], VarSeq[1] >>), x)}
    ELSE {}

\* the call of the numpy attribute that is itself named NULL
NullCalls(x) ==
    IF x = VarSeq[1] THEN {Assign(ExprCall(Callee("NULL"), << >>), x)} ELSE {}

\* the statements that may come next
Statements ==
    MethodLoads \cup
    UNION {
        {Assign(IrArg(x), x)}
        \cup {Assign(IrVar(y), x) : y \in SameRank(x) \ {x}}
        \cup {Assign(ExprGetattr(y, "T"), x) : y \in SameRank(x)}
        \cup {Assign(ExprGetattr(y, "real"), x) : y \in FirstSameRank(x)}
        \cup {Assign(ExprBinop("map", p[1], p[2]), x) :
                 p \in {q \in Defined \X Defined : MaxRankOf(q[1], q[2]) = Rank(x)}}
        \cup {Assign(ExprCall(Callee("dot"), p), x) :
                 p \in {q \in Defined \X Defined : Rank(q[1]) + Rank(q[2]) - 2 = Rank(x)}}
        \cup {Assign(ExprCall(Callee("foo"), << >>), x)}
        \cup {Assign(ExprCall(Callee("user_fn"), << >>), x)}
        \cup {Assign(ExprOther("getitem"), x)}
        \cup {Assign(ExprCall(Callee("transpose"), << y >>), x) :
                 y \in FirstSameRank(x)}
        \cup {Assign(ExprCall(Callee("cos"), << y >>), x) : y \in FirstSameRank(x)}
        \cup NullCalls(x)
        \cup ArrayExprs(x)
        \cup MethodCalls(x)
        \cup ScalarStatements(x)
      : x \in Targets }

----------------------------------------------------------------------------
(* The run *)

\* before a second run there is nothing to compare with
NoRun == [body |-> << >>, shapes |-> << >>]

Init ==
    /\ typemap \in TypeMaps
    /\ calltypes = {}
    /\ next_eq_class = 1
    /\ array_shape_classes = << >>
    /\ class_sizes = (0 :> << ConstSize(1) >>)
    /\ array_size_vars = << >>
    /\ numpy_globals = << >>
    /\ map_calls = << >>
    /\ numpy_calls = << >>
    /\ array_attr_calls = << >>
    /\ tuple_table = << >>
    /\ unique_var_count = 0
    /\ body = Prelude
    /\ out_body = << >>
    /\ block_body = << >>
    /\ pc = "scan"
    /\ exc = "none"
    /\ nstmts = 0
    /\ allocated = {}
    /\ merge_calls = << >>
    /\ broadcast_calls = << >>
    /\ dot_calls = << >>
    /\ last_assign = NothingSeen
    /\ downgraded = {}
    /\ last_inst = OtherInst
    /\ merge_history = << >>
    /\ first_run = NoRun
    /\ sizes_at_loop = << >>
    /\ null_identity = "unknown"
    /\ set_orders = << >>

RECURSIVE Orders(_)
\* every order a set of names can be iterated in
Orders(names) ==
    IF names = {} THEN {<< >>}
    ELSE UNION {{<< n >> \o o : o \in Orders(names \ {n})} : n \in names}

\* whether inst is a call of a callee whose attribute name is NULL
CallsNull(inst) ==
    /\ inst.node = "Assign" /\ inst.value.node = "Expr" /\ inst.value.op = "call"
    /\ \/ inst.value.func \in DOMAIN numpy_calls
          /\ numpy_calls[inst.value.func] = "NULL"
       \/ inst.value.func \in DOMAIN array_attr_calls
          /\ array_attr_calls[inst.value.func][1] = "NULL"

\* what the interpreter may answer to the identity test of line 189 at inst
NullIdentities(inst) ==
    IF null_identity = "unknown" /\ CallsNull(inst) THEN {"yes", "no"}
    ELSE {null_identity}

\* the sets the instructions insts build at line 175 in a way no set was
\* built before, each as its sequence of insertions
NewSets(insts) ==
    {insertions(insts[k].value.operands) :
        k \in {j \in 1..Len(insts) :
                  /\ insts[j].node = "Assign"
                  /\ insts[j].value.node = "Expr"
                  /\ insts[j].value.op = "arrayexpr"
                  /\ insertions(insts[j].value.operands) \notin DOMAIN set_orders}}

\* the orders the interpreter may iterate these sets in, one for each
SetPicks(insts) ==
    {pick \in [NewSets(insts) -> UNION {Orders({ins[k] : k \in 1..Len(ins)}) :
                                           ins \in NewSets(insts)}] :
        \A ins \in NewSets(insts) : pick[ins] \in Orders({ins[k] : k \in 1..Len(ins)})}

\* the analysis object S in an interpreter that answers the identity test
\* with identity and iterates each new set in the order pick gives it
Interpreted(S, identity, pick) ==
    [S EXCEPT !.null_identity = identity, !.set_pick = pick]

\* the instructions the loop of line 60 may go on with: the next one of the
\* callee loads, or a next statement
Pending ==
    IF body # << >> THEN {Head(body)}
    ELSE IF nstmts < MaxStmts THEN Statements ELSE {}

\* lines 64-67 for the instruction inst, r being what _analyze_inst returned
\* and left of the analysis object
Commit(r, inst) ==
    /\ typemap' = r.S.typemap
    /\ calltypes' = r.S.calltypes
    /\ next_eq_class' = r.S.next_eq_class
    /\ array_shape_classes' = r.S.array_shape_classes
    /\ class_sizes' = r.S.class_sizes
    /\ array_size_vars' = r.S.array_size_vars
    /\ numpy_globals' = r.S.numpy_globals
    /\ map_calls' = r.S.map_calls
    /\ numpy_calls' = r.S.numpy_calls
    /\ array_attr_calls' = r.S.array_attr_calls
    /\ tuple_table' = r.S.tuple_table
    /\ unique_var_count' = r.S.unique_var_count
    /\ exc' = r.S.exc
    /\ allocated' = r.S.allocated
    /\ merge_calls' = r.S.merge_calls
    /\ broadcast_calls' = r.S.broadcast_calls
    /\ dot_calls' = r.S.dot_calls
    /\ downgraded' = r.S.downgraded
    /\ last_assign' = r.seen
    /\ last_inst' = inst
    /\ sizes_at_loop' = r.S.loop_sizes
    /\ null_identity' = (IF r.S.null_compared THEN r.S.null_identity ELSE null_identity)
    /\ set_orders' = r.S.set_orders
    /\ merge_history' = merge_history \o r.S.merge_calls
    \* lines 65-67 run only when _analyze_inst returned
    /\ out_body' = IF r.S.exc = "none" THEN Append(out_body, inst) \o r.ret
                   ELSE out_body

\* a new analysis object on the same function: the fields as __init__ sets
\* them, lines 16-41, with the type map and the call types the caller holds
\* (the first run has added to both) and the counter of mk_unique_var, which
\* is global
NewSelf ==
    [typemap |-> typemap, calltypes |-> calltypes,
     next_eq_class |-> 1,
     array_shape_classes |-> << >>,
     class_sizes |-> (0 :> << ConstSize(1) >>), array_size_vars |-> << >>,
     numpy_globals |-> << >>, map_calls |-> << >>,
     numpy_calls |-> << >>, array_attr_calls |-> << >>,
     tuple_table |-> << >>, unique_var_count |-> unique_var_count,
     exc |-> "none", allocated |-> {},
     merge_calls |-> << >>, broadcast_calls |-> << >>, dot_calls |-> << >>,
     downgraded |-> {}, loop_sizes |-> << >>,
     null_identity |-> null_identity, null_compared |-> FALSE,
     set_orders |-> set_orders, set_pick |-> << >>]

RECURSIVE analyze_block(_, _, _)
\* lines 65-67 for the instruction inst, r being what _analyze_inst returned,
\* and the loop goes on with the rest of the body
block_next(r, inst, rest, out) ==
    IF Raised(r) THEN Return(r.S, out)
    ELSE analyze_block(r.S, rest, Append(out, inst) \o r.ret)

\* _analyze_block, lines 58-68, from the instructions insts on; out is
\* out_body so far
analyze_block(S, insts, out) ==
    IF insts = << >> THEN Return(S, out)
    ELSE block_next(analyze_inst(S, Head(insts)), Head(insts), Tail(insts), out)

\* the end of a second run, r being what _analyze_block left
Rerun(r) ==
    /\ typemap' = r.S.typemap
    /\ calltypes' = r.S.calltypes
    /\ next_eq_class' = r.S.next_eq_class
    /\ array_shape_classes' = r.S.array_shape_classes
    /\ class_sizes' = r.S.class_sizes
    /\ array_size_vars' = r.S.array_size_vars
    /\ numpy_globals' = r.S.numpy_globals
    /\ map_calls' = r.S.map_calls
    /\ numpy_calls' = r.S.numpy_calls
    /\ array_attr_calls' = r.S.array_attr_calls
    /\ tuple_table' = r.S.tuple_table
    /\ unique_var_count' = r.S.unique_var_count
    /\ exc' = r.S.exc
    /\ allocated' = r.S.allocated
    /\ downgraded' = r.S.downgraded
    /\ null_identity' = (IF r.S.null_compared THEN r.S.null_identity ELSE null_identity)
    /\ set_orders' = r.S.set_orders
    /\ out_body' = r.ret
    \* line 68 runs only when the loop came to its end
    /\ block_body' = IF r.S.exc = "none" THEN r.ret ELSE block_body

\* run() of a new ArrayAnalysis object on the function the first run has
\* left, lines 16-41 and 43-68
RunAgain ==
    /\ pc = "returned"
    /\ nstmts <= MaxRerunStmts
    /\ \E identity \in (IF null_identity = "unknown" THEN {"yes", "no"}
                          ELSE {null_identity}) :
          \E pick \in SetPicks(block_body) :
             Rerun(analyze_block(Interpreted(NewSelf, identity, pick), block_body, << >>))
    /\ first_run' = [body |-> block_body, shapes |-> array_shape_classes]
    /\ pc' = "returned_again"
    /\ merge_calls' = << >>
    /\ broadcast_calls' = << >>
    /\ dot_calls' = << >>
    /\ merge_history' = << >>
    /\ last_assign' = NothingSeen
    /\ last_inst' = OtherInst
    /\ sizes_at_loop' = << >>
    /\ UNCHANGED << body, nstmts >>

\* one iteration of the loop of _analyze_block, lines 60-67
AnalyzeInst ==
    /\ pc = "scan"
    /\ exc = "none"
    /\ \E inst \in Pending :
          \E identity \in NullIdentities(inst) :
             \E pick \in SetPicks(<< inst >>) :
                Commit(analyze_inst(Interpreted(Self, identity, pick), inst), inst)
    /\ body' = IF body = << >> THEN body ELSE Tail(body)
    /\ nstmts' = IF body = << >> THEN nstmts + 1 ELSE nstmts
    /\ UNCHANGED << block_body, pc, first_run >>

\* line 68, after the last instruction of the block; run() then returns
EndBlock ==
    /\ pc = "scan"
    /\ exc = "none"
    /\ body = << >>
    /\ block_body' = out_body
    /\ pc' = "returned"
    /\ UNCHANGED << typemap, calltypes, next_eq_class, array_shape_classes,
                    class_sizes, array_size_vars, numpy_globals, map_calls,
                    numpy_calls, array_attr_calls, tuple_table, unique_var_count,
                    body, out_body, exc, nstmts, allocated, merge_calls,
                    broadcast_calls, dot_calls, last_assign, downgraded, last_inst,
           merge_history, first_run, sizes_at_loop, null_identity,
           set_orders >>

Next == AnalyzeInst \/ EndBlock \/ RunAgain

Spec == Init /\ [][Next]_vars

----------------------------------------------------------------------------
(* Observations the properties use *)

\* the instructions of the written-back block that assign a program variable:
\* the statements of the input, without the callee loads and without the
\* nodes the pass inserted
Stream == SelectSeq(block_body, LAMBDA inst : inst.target \in Vars)

\* the classes of the sequence l
ClassesOf(l) == {l[i] : i \in 1..Len(l)}

\* whether every entry of l is -1
AllUnknown(l) == \A i \in 1..Len(l) : l[i] = -1

\* the last instruction was an array assignment that found a conflict: the
\* target had a recorded shape and the inferred shape differs from it
ConflictSeen ==
    /\ last_assign.is_assign
    /\ last_assign.had_shape
    /\ last_assign.inferred
    /\ last_assign.prior # last_assign.rhs_corr

----------------------------------------------------------------------------
(* C1 *)

\* C1, first half: a _merge_classes call with c1 # c2 returns a class that
\* was not used before; every entry of every recorded shape that held c1 or
\* c2 holds the returned class and every other entry is as it was;
\* class_sizes has lost the keys c1 and c2, maps the returned class to c1's
\* former list followed by c2's (a missing list is empty) and is otherwise
\* as it was.
MergedDistinct(m) ==
    /\ m.ret \notin m.pre_allocated \cup {m.c1, m.c2, 0, -1}
    /\ \A v \in DOMAIN m.pre_shapes : \A i \in 1..Len(m.pre_shapes[v]) :
          m.ret # m.pre_shapes[v][i]
    /\ m.ret \notin DOMAIN m.pre_sizes
    /\ DOMAIN m.post_shapes = DOMAIN m.pre_shapes
    /\ \A v \in DOMAIN m.pre_shapes :
          /\ Len(m.post_shapes[v]) = Len(m.pre_shapes[v])
          /\ \A i \in 1..Len(m.pre_shapes[v]) :
                m.post_shapes[v][i] =
                    IF m.pre_shapes[v][i] \in {m.c1, m.c2} THEN m.ret
                    ELSE m.pre_shapes[v][i]
    /\ DOMAIN m.post_sizes = (DOMAIN m.pre_sizes \ {m.c1, m.c2}) \cup {m.ret}
    /\ m.post_sizes[m.ret] = PopOr(m.pre_sizes, m.c1) \o PopOr(m.pre_sizes, m.c2)
    /\ \A k \in DOMAIN m.pre_sizes \ {m.c1, m.c2} : m.post_sizes[k] = m.pre_sizes[k]

\* C1, second half: with c1 = c2 the call returns c1, allocates no class and
\* changes no table.
MergedSame(m) ==
    /\ m.ret = m.c1
    /\ m.post_next = m.pre_next
    /\ m.post_shapes = m.pre_shapes
    /\ m.post_sizes = m.pre_sizes

\* C1: every _merge_classes call of the run keeps the contract above.
MergeContract ==
    \A k \in 1..Len(merge_calls) :
        IF merge_calls[k].c1 # merge_calls[k].c2
        THEN MergedDistinct(merge_calls[k])
        ELSE MergedSame(merge_calls[k])

\* a _merge_classes call with two different classes that both had size
\* variables and were both held by recorded shapes, next to an entry holding
\* neither
MergeContractWitness ==
    \E k \in 1..Len(merge_calls) :
        LET m == merge_calls[k] IN
        /\ m.c1 # m.c2
        /\ PopOr(m.pre_sizes, m.c1) # << >>
        /\ PopOr(m.pre_sizes, m.c2) # << >>
        /\ PopOr(m.pre_sizes, m.c1) # PopOr(m.pre_sizes, m.c2)
        /\ \E v \in DOMAIN m.pre_shapes : m.c1 \in ClassesOf(m.pre_shapes[v])
        /\ \E v \in DOMAIN m.pre_shapes : m.c2 \in ClassesOf(m.pre_shapes[v])
        /\ \E v \in DOMAIN m.pre_shapes :
              ClassesOf(m.pre_shapes[v]) \ {m.c1, m.c2} # {}

\* a _merge_classes call with c1 = c2, a class that recorded shapes hold
MergeSameReached ==
    \E k \in 1..Len(merge_calls) :
        /\ merge_calls[k].c1 = merge_calls[k].c2
        /\ \E v \in DOMAIN merge_calls[k].pre_shapes :
              merge_calls[k].c1 \in ClassesOf(merge_calls[k].pre_shapes[v])

----------------------------------------------------------------------------
(* C2 *)

\* C2: class -1 is never an argument of _merge_classes, so that no entry
\* equal to -1 is renamed, and -1 is never a key of class_sizes.
UnknownNeverMerged ==
    /\ \A k \in 1..Len(merge_calls) :
          merge_calls[k].c1 # -1 /\ merge_calls[k].c2 # -1
    /\ -1 \notin DOMAIN class_sizes

----------------------------------------------------------------------------
(* C3 *)

\* the class the shape table holds for operand j of the broadcast b at the
\* output dimension i
AlignedClass(b, j, i) ==
    b.shapes[b.args[j]][i - (Len(b.out_eq) - Len(b.shapes[b.args[j]]))]

\* C3: when _broadcast_and_match_shapes returns, for every output dimension
\* and every operand whose padded class there is not 0, the class recorded
\* for the operand's aligned dimension is the class of the returned shape at
\* that dimension.
BroadcastAgrees ==
    \A k \in 1..Len(broadcast_calls) :
        \A j \in 1..Len(broadcast_calls[k].args) :
            \A i \in 1..Len(broadcast_calls[k].out_eq) :
                broadcast_calls[k].eqs[j][i] # 0
                    => AlignedClass(broadcast_calls[k], j, i)
                           = broadcast_calls[k].out_eq[i]

----------------------------------------------------------------------------
(* C4 *)

\* C4: after an assignment that found a conflict the target's recorded shape
\* is -1 repeated to the length of the shape recorded before, the target has
\* no entry in array_size_vars, the handler has returned no instructions, and
\* the scan has not stopped.
ConflictDowngrade ==
    ConflictSeen =>
        /\ array_shape_classes[last_assign.target]
               = Repeat(-1, Len(last_assign.prior))
        /\ last_assign.target \notin DOMAIN array_size_vars
        /\ last_assign.returned
        /\ last_assign.size_calls = << >>
        /\ exc = "none"

\* a conflict between [X, Y] and [X, Z] with X, Y, Z distinct, on a variable
\* that had size variables, left as [-1, -1]
ConflictDowngradeWitness ==
    /\ ConflictSeen
    /\ Len(last_assign.prior) = 2
    /\ Len(last_assign.rhs_corr) = 2
    /\ last_assign.prior[1] = last_assign.rhs_corr[1]
    /\ Cardinality({last_assign.prior[1], last_assign.prior[2],
                    last_assign.rhs_corr[2]}) = 3
    /\ last_assign.prior[1] > 0 /\ last_assign.prior[2] > 0
    /\ last_assign.rhs_corr[2] > 0
    /\ array_shape_classes[last_assign.target] = << -1, -1 >>

----------------------------------------------------------------------------
(* C5 *)

\* C5: a variable whose shape a conflict has downgraded has a recorded shape
\* of -1 only, in every later state.
DowngradeIsPermanent ==
    \A v \in downgraded : AllUnknown(array_shape_classes[v])

----------------------------------------------------------------------------
(* C6 *)

\* the index of the contracted dimension of a second operand of length n
Contracted(n) == IF n = 1 THEN 1 ELSE n - 1

\* the sequence l without its element at index k
Without(l, k) == SubSeq(l, 1, k - 1) \o SubSeq(l, k + 1, Len(l))

\* C6 for one application of the dot rule, n1 and n2 being the lengths of
\* the operands' recorded shapes: the last entry of the first operand and
\* the contracted entry of the second hold the same class afterwards; the
\* returned shape has length n1 + n2 - 2 and is the first operand's first
\* n1 - 1 recorded classes followed, when n2 >= 2, by the second operand's
\* recorded classes without the second-to-last, as they stand after the
\* merge; [m, k] and [k2, n] with four distinct classes give [m, n].
DotRule(d) ==
    LET n1 == Len(d.shape1)
        n2 == Len(d.shape2)
        now1 == d.shapes[d.in1]
        now2 == d.shapes[d.in2]
    IN  /\ n1 >= 1 /\ n2 >= 1
        /\ Len(now1) = n1 /\ Len(now2) = n2
        /\ d.c1 = d.shape1[n1]
        /\ d.c2 = d.shape2[Contracted(n2)]
        /\ now1[n1] = now2[Contracted(n2)]
        /\ Len(d.c_out) = n1 + n2 - 2
        /\ d.c_out = SubSeq(now1, 1, n1 - 1)
                       \o (IF n2 >= 2 THEN Without(now2, n2 - 1) ELSE << >>)
        /\ (n1 = 2 /\ n2 = 2
              /\ Cardinality(ClassesOf(d.shape1) \cup ClassesOf(d.shape2)) = 4)
             => d.c_out = << d.shape1[1], d.shape2[2] >>

\* C6: every application of the dot rule that returns keeps DotRule.
DotShape == \A k \in 1..Len(dot_calls) : DotRule(dot_calls[k])

\* dot of [m, k] and [k2, n] with four distinct known classes has returned
DotShapeWitness ==
    \E k \in 1..Len(dot_calls) :
        /\ Len(dot_calls[k].shape1) = 2
        /\ Len(dot_calls[k].shape2) = 2
        /\ Cardinality(ClassesOf(dot_calls[k].shape1)
                         \cup ClassesOf(dot_calls[k].shape2)) = 4
        /\ \A c \in ClassesOf(dot_calls[k].shape1)
                      \cup ClassesOf(dot_calls[k].shape2) : c > 0
        /\ dot_calls[k].shapes[dot_calls[k].in1][2]
              = dot_calls[k].shapes[dot_calls[k].in2][1]
        /\ dot_calls[k].c_out = << dot_calls[k].shape1[1], dot_calls[k].shape2[2] >>

----------------------------------------------------------------------------
(* C7 *)

\* C7: the pass never raises; every instruction is analysed and the scan
\* goes on to the next one.
RunNeverRaises == exc = "none"

----------------------------------------------------------------------------
(* C8 *)

\* the pass has returned from the stream a = parameter, b = parameter,
\* c = a + b, all of rank 1, with no other statement in between
AddTwoParametersRun ==
    /\ pc = "returned"
    /\ nstmts = 3
    /\ \A x \in Vars : Rank(x) = 1
    /\ Stream = << Assign(IrArg(V("a")), V("a")),
                   Assign(IrArg(V("b")), V("b")),
                   Assign(ExprBinop("map", V("a"), V("b")), V("c")) >>

\* C8 as the specification has it: after that stream a, b and c have the
\* same single class at dimension 0, one materialization sequence has been
\* inserted (after a; none after b or c), and the size variable of b's
\* dimension 0 is a's representative.
AddTwoParametersOnce ==
    AddTwoParametersRun =>
        /\ array_shape_classes[V("a")] = array_shape_classes[V("b")]
        /\ array_shape_classes[V("a")] = array_shape_classes[V("c")]
        /\ Len(array_shape_classes[V("a")]) = 1
        /\ Len(block_body) = Len(Prelude) + 3 + 3
        /\ block_body[Len(Prelude) + 1] = Stream[1]
        /\ block_body[Len(Prelude) + 5] = Stream[2]
        /\ block_body[Len(Prelude) + 6] = Stream[3]
        /\ array_size_vars[V("b")][1] = array_size_vars[V("a")][1]

\* C8 as the code has it: after that stream a, b and c have the same single
\* class at dimension 0; two materialization sequences have been inserted,
\* one after a and one after b, and none after c; the size variable of b's
\* dimension 0 is the one generated after b, the size variable of c's
\* dimension 0 is a's, and the class holds a's then b's.
AddTwoParameters ==
    AddTwoParametersRun =>
        /\ array_shape_classes[V("a")] = array_shape_classes[V("b")]
        /\ array_shape_classes[V("a")] = array_shape_classes[V("c")]
        /\ Len(array_shape_classes[V("a")]) = 1
        /\ Len(block_body) = Len(Prelude) + 3 + 3 + 3
        /\ block_body[Len(Prelude) + 1] = Stream[1]
        /\ block_body[Len(Prelude) + 4].target = array_size_vars[V("a")][1]
        /\ block_body[Len(Prelude) + 5] = Stream[2]
        /\ block_body[Len(Prelude) + 8].target = array_size_vars[V("b")][1]
        /\ block_body[Len(Prelude) + 9] = Stream[3]
        /\ array_size_vars[V("b")][1] # array_size_vars[V("a")][1]
        /\ array_size_vars[V("c")][1] = array_size_vars[V("a")][1]
        /\ class_sizes[array_shape_classes[V("a")][1]]
              = << array_size_vars[V("a")][1], array_size_vars[V("b")][1] >>

\* the pass has returned from that stream, with c recorded
AddTwoParametersWitness ==
    /\ AddTwoParametersRun
    /\ V("c") \in DOMAIN array_size_vars
    /\ Len(merge_calls) = 1

----------------------------------------------------------------------------
(* C9 *)

\* C9: the shape recorded for an array variable has as many entries as the
\* variable's static rank.
ShapeLengthIsRank ==
    \A v \in DOMAIN array_shape_classes :
        typemap[v].kind = "Array" => Len(array_shape_classes[v]) = typemap[v].n

----------------------------------------------------------------------------
(* C10 *)

\* C10: once an array assignment has been processed, every class other than
\* 0 and -1 of the shape just recorded is a key of class_sizes, and every key
\* of class_sizes maps to a list with at least one representative.
KnownClassesHaveSizes ==
    (exc = "none" /\ last_assign.is_assign /\ last_assign.is_array)
        => /\ \A c \in ClassesOf(array_shape_classes[last_assign.target]) \ {0, -1} :
                 c \in DOMAIN class_sizes
           /\ \A c \in DOMAIN class_sizes : Len(class_sizes[c]) >= 1

----------------------------------------------------------------------------
(* C11 *)

\* the last instruction assigns, to an array, empty(n) or reshape(a, n) with
\* a shape argument n of a scalar integer type
ScalarShapeCall ==
    /\ last_inst.node = "Assign"
    /\ typemap[last_inst.target].kind = "Array"
    /\ last_inst.value.node = "Expr"
    /\ last_inst.value.op = "call"
    /\ \/ /\ last_inst.value.func = Callee("empty")
          /\ typemap[last_inst.value.operands[1]].kind = "Integer"
       \/ /\ last_inst.value.func = Callee("reshape")
          /\ typemap[last_inst.value.operands[2]].kind = "Integer"

\* the shape argument of that call
ShapeArgument ==
    IF last_inst.value.func = Callee("empty")
    THEN last_inst.value.operands[1] ELSE last_inst.value.operands[2]

\* C11: after such an assignment the inferred shape has exactly one class,
\* the class is freshly allocated, class_sizes maps it to the list holding
\* the shape argument alone, no materialization instructions were emitted
\* and the size variable of dimension 0 is the shape argument.
ScalarShapeGivesOneClass ==
    ScalarShapeCall =>
        /\ exc = "none"
        /\ last_assign.inferred
        /\ Len(last_assign.rhs_corr) = 1
        /\ last_assign.rhs_corr[1] = next_eq_class - 1
        /\ last_assign.rhs_corr[1] \in DOMAIN class_sizes
        /\ class_sizes[last_assign.rhs_corr[1]] = << ShapeArgument >>
        /\ last_assign.size_calls = << >>
        /\ last_inst.target \in DOMAIN array_size_vars
        /\ array_size_vars[last_inst.target] = << ShapeArgument >>

----------------------------------------------------------------------------
(* C12 *)

\* the last instruction assigns, to an array, an elementwise binary
\* operation of one array with a recorded shape and one operand that is not
\* an array
MixedBroadcast ==
    /\ last_inst.node = "Assign"
    /\ typemap[last_inst.target].kind = "Array"
    /\ last_inst.value.node = "Expr"
    /\ last_inst.value.op = "binop"
    /\ \E j \in 1..2 : typemap[last_inst.value.operands[j]].kind # "Array"
    /\ \E j \in 1..2 :
          /\ typemap[last_inst.value.operands[j]].kind = "Array"
          /\ last_inst.value.operands[j] \in DOMAIN array_shape_classes

\* the array operand of that operation
ArrayOperand ==
    CHOOSE y \in {last_inst.value.operands[j] : j \in 1..2} :
        typemap[y].kind = "Array"

\* C12: _broadcast_and_match_shapes on one array and one operand that is not
\* an array, in either order, completes without error, merges nothing and
\* returns what the call on the array alone returns, the array's shape.
MixedBroadcastCompletes ==
    MixedBroadcast =>
        /\ exc = "none"
        /\ Len(broadcast_calls) = 1
        /\ merge_calls = << >>
        /\ broadcast_calls[1].out_eq = broadcast_calls[1].shapes[ArrayOperand]
        /\ last_assign.rhs_corr = broadcast_calls[1].out_eq

----------------------------------------------------------------------------
(* C13 *)

\* the merge m1 of two different classes gave D, and then the merge m2, on
\* the tables as m1 left them, merged D with another class
MergedThenMerged(m1, m2) ==
    /\ m1.c1 # m1.c2
    /\ m2.c1 = m1.ret
    /\ m2.c2 # m2.c1
    /\ m2.pre_shapes = m1.post_shapes
    /\ m2.pre_sizes = m1.post_sizes

\* C13 for two such merges, A = m1.c1, B = m1.c2, D = m1.ret, C = m2.c2 and
\* E = m2.ret: every entry that held A, B or C before the two merges holds E
\* after them, class_sizes[E] is the lists of A, B and C in that order, and
\* A, B, C and D are not keys of class_sizes.
Transitive(m1, m2) ==
    /\ \A v \in DOMAIN m1.pre_shapes : \A i \in 1..Len(m1.pre_shapes[v]) :
          m1.pre_shapes[v][i] \in {m1.c1, m1.c2, m2.c2}
              => m2.post_shapes[v][i] = m2.ret
    /\ m2.post_sizes[m2.ret] = PopOr(m1.pre_sizes, m1.c1)
                                 \o PopOr(m1.pre_sizes, m1.c2)
                                 \o PopOr(m1.pre_sizes, m2.c2)
    /\ DOMAIN m2.post_sizes \cap {m1.c1, m1.c2, m2.c2, m1.ret} = {}

\* C13: any two successive merges of the run of which the second merges the
\* class the first returned are transitive in that sense.
MergeTransitive ==
    \A k \in 1..(Len(merge_history) - 1) :
        MergedThenMerged(merge_history[k], merge_history[k + 1])
            => Transitive(merge_history[k], merge_history[k + 1])

\* two such merges have happened, of three classes that each had a size
\* variable and were each held by a recorded shape
MergeTransitiveWitness ==
    \E k \in 1..(Len(merge_history) - 1) :
        LET m1 == merge_history[k]
            m2 == merge_history[k + 1]
        IN  /\ MergedThenMerged(m1, m2)
            /\ Cardinality({m1.c1, m1.c2, m2.c2}) = 3
            /\ \A c \in {m1.c1, m1.c2, m2.c2} :
                  /\ Len(PopOr(m1.pre_sizes, c)) = 1
                  /\ \E v \in DOMAIN m1.pre_shapes : c \in ClassesOf(m1.pre_shapes[v])
            /\ Len(m2.post_sizes[m2.ret]) = 3

----------------------------------------------------------------------------
(* C14 *)

\* the shape tables s and t split the dimensions of the same arrays into the
\* same classes, whatever the ids
SamePartition(s, t) ==
    /\ DOMAIN s = DOMAIN t
    /\ \A v \in DOMAIN s : Len(s[v]) = Len(t[v])
    /\ \A v, w \in DOMAIN s : \A i \in 1..Len(s[v]) : \A j \in 1..Len(s[w]) :
          (s[v][i] = s[w][j]) <=> (t[v][i] = t[w][j])

\* C14: a second run of the analysis on the instructions the first run left
\* ends with the same partition of the array dimensions and inserts nothing:
\* the block is as the first run left it.
SecondRunChangesNothing ==
    pc = "returned_again" =>
        /\ exc = "none"
        /\ SamePartition(first_run.shapes, array_shape_classes)
        /\ block_body = first_run.body

----------------------------------------------------------------------------
(* C15 *)

\* the classes other than 0 that the padded operands of the broadcast b carry
\* at dimension i
NonZeroAt(b, i) == {b.eqs[j][i] : j \in 1..Len(b.eqs)} \ {0}

\* the dimensions of the broadcast b at which the operands carry more than
\* one class other than 0
Disputed(b) == {i \in 1..Len(b.out_eq) : Cardinality(NonZeroAt(b, i)) >= 2}

\* the resolver of lines 300-312 on the padded shapes [c1, 0] and [0, c2],
\* in that order, gives [c1, c2] and changes no table
CrossPadded(c1, c2) ==
    /\ match_dims(Self, << << c1, 0 >>, << 0, c2 >> >>, 1, << >>)
          = Return(Self, << c1, c2 >>)
    /\ match_dims(Self, << << 0, c2 >>, << c1, 0 >> >>, 1, << >>)
          = Return(Self, << c1, c2 >>)

\* C15: in a _broadcast_and_match_shapes call, at a dimension where the
\* operands carry exactly one class c other than 0 the output class is c;
\* every merge of the call is for a dimension with more than one such class,
\* so that no class is allocated or merged for the others; the output class
\* is 0 only where every operand has 0; and [c1, 0] with [0, c2] gives
\* [c1, c2] in either order.
BroadcastKeepsSingleClass ==
    \A k \in 1..Len(broadcast_calls) :
        LET b == broadcast_calls[k] IN
        /\ \A i \in 1..Len(b.out_eq) :
              /\ Cardinality(NonZeroAt(b, i)) = 1 => b.out_eq[i] \in NonZeroAt(b, i)
              /\ b.out_eq[i] = 0 => NonZeroAt(b, i) = {}
        /\ Len(merge_calls) <= Cardinality(Disputed(b)) * (Len(b.eqs) - 1)
        /\ \A n \in 1..Len(merge_calls) :
              \E i \in Disputed(b) : merge_calls[n].c2 \in NonZeroAt(b, i)
        /\ Disputed(b) = {} => merge_calls = << >>
        /\ \A c1, c2 \in ClassesOf(b.out_eq) : CrossPadded(c1, c2)

\* a broadcast of a rank-2 and a rank-1 operand has returned: at dimension 0
\* one operand is padded and the output is the other's class, with no merge,
\* and at dimension 1 two classes were merged
BroadcastKeepsSingleClassWitness ==
    \E k \in 1..Len(broadcast_calls) :
        LET b == broadcast_calls[k] IN
        /\ Len(b.out_eq) = 2
        /\ \E j \in 1..Len(b.eqs) : b.eqs[j][1] = 0
        /\ Cardinality(NonZeroAt(b, 1)) = 1
        /\ b.out_eq[1] \in NonZeroAt(b, 1)
        /\ Disputed(b) = {2}
        /\ Len(merge_calls) = 1

----------------------------------------------------------------------------
(* C16 *)

\* the last instruction was an array assignment for which a shape was
\* inferred and that was not a conflict
RecordedAssign ==
    /\ last_assign.is_assign
    /\ last_assign.is_array
    /\ last_assign.inferred
    /\ ~ (last_assign.has_prior /\ last_assign.prior # last_assign.rhs_corr)

\* dimension i (from 1) of the inferred shape needs a new size variable: its
\* class is -1, or was no key of class_sizes and no earlier dimension had it
NeedsSize(i) ==
    \/ last_assign.rhs_corr[i] = -1
    \/ /\ last_assign.rhs_corr[i] \notin DOMAIN sizes_at_loop
       /\ \A j \in 1..(i - 1) : last_assign.rhs_corr[j] # last_assign.rhs_corr[i]

\* how many of the dimensions 1..i need a new size variable
SizesUpTo(i) == Cardinality({j \in 1..i : NeedsSize(j)})

\* the instructions from position p on are the sequence for dimension i
\* (from 1) of the array lhs: the shape attribute read, the constant i - 1
\* bound, the shape indexed at i - 1
IsSizeSequence(calls, p, lhs, i) ==
    /\ calls[p] = Assign(ExprGetattr(lhs, "shape"), calls[p].target)
    /\ calls[p + 1] = Assign(IrConst(i - 1), calls[p + 1].target)
    /\ calls[p + 2] = Assign(ExprStaticGetitem(calls[p].target, i - 1,
                                               calls[p + 1].target),
                             calls[p + 2].target)

\* what the size loop has left for every dimension of the inferred shape:
\* one three-instruction sequence for each dimension that needed a size
\* variable, in increasing dimension order, its last target the size variable
\* of the dimension and, unless the class is -1, the sole representative of
\* the class; for the other dimensions nothing emitted and the size variable
\* the first representative of the class
SizesAsSpecified ==
    LET lhs == last_assign.target
        corr == last_assign.rhs_corr
        calls == last_assign.size_calls
    IN  /\ Len(calls) = 3 * SizesUpTo(Len(corr))
        /\ lhs \in DOMAIN array_size_vars
        /\ Len(array_size_vars[lhs]) = Len(corr)
        /\ \A i \in 1..Len(corr) :
              IF NeedsSize(i)
              THEN /\ IsSizeSequence(calls, 3 * SizesUpTo(i) - 2, lhs, i)
                   /\ array_size_vars[lhs][i] = calls[3 * SizesUpTo(i)].target
                   /\ corr[i] # -1 =>
                         /\ corr[i] \in DOMAIN class_sizes
                         /\ class_sizes[corr[i]] = << calls[3 * SizesUpTo(i)].target >>
              ELSE /\ corr[i] \in DOMAIN class_sizes
                   /\ class_sizes[corr[i]] # << >>
                   /\ array_size_vars[lhs][i] = class_sizes[corr[i]][1]

\* C16, first half: every array assignment that is not a conflict gets, for
\* each dimension of the inferred shape, a new size sequence or the first
\* representative of the class: the handler returns and has left the sizes
\* as specified.
SizeLoopContract ==
    RecordedAssign =>
        /\ last_assign.returned
        /\ exc = "none"
        /\ SizesAsSpecified

\* the same for the assignments whose handler returned
SizeLoopContractOnReturn ==
    (RecordedAssign /\ last_assign.returned) => SizesAsSpecified

\* C16, second half, for one step: an instruction the handler returned from
\* is appended to out_body, followed by the sequences it triggered and by
\* nothing else; an instruction that is not an array assignment triggers
\* none; the end of _analyze_block writes out_body back; a second run keeps
\* the instructions it was given, in their order.
BodyInPlace ==
    /\ (pc = "scan" /\ pc' = "scan" /\ exc' = "none")
          => /\ out_body' = Append(out_body, last_inst') \o last_assign'.size_calls
             /\ ~ RecordedAssign' => last_assign'.size_calls = << >>
    /\ (pc = "scan" /\ pc' = "returned") => block_body' = out_body
    /\ (pc' = "returned_again" /\ pc = "returned" /\ exc' = "none")
          => SelectSeq(block_body',
                       LAMBDA inst : inst.target[4] < unique_var_count
                                       \/ inst.target[2] \notin {"_sh_attr", "$const", "size"})
                = block_body

\* one step of the pass emits as specified
EmitsInPlace ==
    /\ (pc = "scan" /\ pc' = "scan") => SizeLoopContract'
    /\ BodyInPlace

\* C16: for each array assignment that is not a conflict and each dimension
\* of the inferred shape, a class that is -1 or no key of class_sizes gets
\* exactly one three-instruction sequence, whose last target becomes the size
\* variable of the dimension and (unless the class is -1) the sole
\* representative of the class; otherwise nothing is emitted and the size
\* variable is the first representative of the class; the block body is the
\* original instructions in order, each followed by its sequences.
SizeCallsEmitted == [][EmitsInPlace]_vars

\* one step of the pass emits as specified whenever the handler returns
EmitsInPlaceOnReturn ==
    /\ (pc = "scan" /\ pc' = "scan") => SizeLoopContractOnReturn'
    /\ BodyInPlace

\* the part of C16 that holds: what is emitted when the handler returns
SizeCallsEmittedOnReturn == [][EmitsInPlaceOnReturn]_vars

\* an assignment of a rank-2 shape of which one dimension needed a size
\* variable and the other reused the representative of its class: one
\* sequence was emitted, right after the assignment
SizeCallsEmittedOnReturnReached ==
    /\ RecordedAssign
    /\ last_assign.returned
    /\ exc = "none"
    /\ Len(last_assign.rhs_corr) = 2
    /\ NeedsSize(1) # NeedsSize(2)
    /\ Len(last_assign.size_calls) = 3
    /\ Len(out_body) > 3
    /\ out_body[Len(out_body) - 3] = last_inst

\* an assignment that is not a conflict came to line 123 with a class that is
\* a key of class_sizes and has no representative
EmptyClassAtSizeLoop ==
    /\ RecordedAssign
    /\ ~ last_assign.returned
    /\ exc = "IndexError"
    /\ \E i \in 1..Len(last_assign.rhs_corr) :
          /\ last_assign.rhs_corr[i] \in DOMAIN sizes_at_loop
          /\ sizes_at_loop[last_assign.rhs_corr[i]] = << >>

----------------------------------------------------------------------------
(* C17 *)

\* one step of one run: every variable with a recorded shape keeps a
\* recorded shape of the same length (a second run is a new object, whose
\* tables start empty)
LengthKept ==
    ~ (pc = "returned" /\ pc' = "returned_again")
        => \A v \in DOMAIN array_shape_classes :
              /\ v \in DOMAIN array_shape_classes'
              /\ Len(array_shape_classes'[v]) = Len(array_shape_classes[v])

\* C17: once a shape vector is recorded for a variable, its length is the
\* same in every later state of the run, through merges, repeated equal
\* assignments and conflicts.
ShapeLengthKept == [][LengthKept]_vars

\* a conflict whose new inference had another length than the recorded
\* shape: the vector of -1 has the length recorded before
ShapeLengthKeptWitness ==
    /\ ConflictSeen
    /\ Len(last_assign.prior) # Len(last_assign.rhs_corr)
    /\ last_assign.target \in DOMAIN array_shape_classes
    /\ array_shape_classes[last_assign.target] = Repeat(-1, Len(last_assign.prior))

----------------------------------------------------------------------------
(* C18 *)

\* the array that the assignment inst transposes, in one of the three
\* written forms (the T attribute, numpy.transpose, the bound method), or
\* NoName when inst is no transpose into an array
Transposed(inst) ==
    IF inst.node # "Assign" \/ inst.value.node # "Expr" THEN NoName
    ELSE IF inst.target \notin DOMAIN typemap \/ typemap[inst.target].kind # "Array"
    THEN NoName
    ELSE IF inst.value.op = "getattr" /\ inst.value.attr = "T"
              /\ typemap[inst.value.operands[1]].kind = "Array"
    THEN inst.value.operands[1]
    ELSE IF inst.value.op # "call" THEN NoName
    ELSE IF inst.value.func \in DOMAIN numpy_calls
    THEN IF numpy_calls[inst.value.func] = "transpose" /\ Len(inst.value.operands) = 1
         THEN inst.value.operands[1]
         ELSE NoName
    ELSE IF inst.value.func \in DOMAIN array_attr_calls
    THEN IF array_attr_calls[inst.value.func][1] = "transpose"
         THEN array_attr_calls[inst.value.func][2]
         ELSE NoName
    ELSE NoName

\* one step: a transpose of a recorded array t infers the reverse of t's
\* shape, so a's own shape when t's shape is the reverse of a's, and leaves
\* the shapes of the other variables, class_sizes and the counter alone
TransposeStep ==
    (/\ pc = "scan" /\ pc' = "scan"
     /\ Transposed(last_inst') # NoName
     /\ Transposed(last_inst') \in DOMAIN array_shape_classes)
        => /\ exc' = "none"
           /\ last_assign'.inferred
           /\ last_assign'.rhs_corr = Reverse(array_shape_classes[Transposed(last_inst')])
           /\ \A a \in DOMAIN array_shape_classes :
                 /\ array_shape_classes[Transposed(last_inst')] = Reverse(array_shape_classes[a])
                       => last_assign'.rhs_corr = array_shape_classes[a]
                 /\ a # last_inst'.target
                       => /\ a \in DOMAIN array_shape_classes'
                          /\ array_shape_classes'[a] = array_shape_classes[a]
           /\ next_eq_class' = next_eq_class
           /\ DOMAIN class_sizes \subseteq DOMAIN class_sizes'
           /\ \A c \in DOMAIN class_sizes : class_sizes'[c] = class_sizes[c]

\* C18: the shape inferred for transpose(transpose(a)) is a's recorded
\* shape, entry by entry, in each written form of transpose, and a transpose
\* changes no recorded shape, no class_sizes entry and not the counter.
TransposeInvolution == [][TransposeStep]_vars

\* the same for the T attribute and numpy.transpose only
TransposeStepNoMethod ==
    (last_inst'.node = "Assign" /\ last_inst'.value.func \notin DOMAIN array_attr_calls)
        => TransposeStep

\* it holds for the T attribute and for numpy.transpose, twice in a row too
TransposeInvolutionNoMethod == [][TransposeStepNoMethod]_vars

----------------------------------------------------------------------------
(* C19 *)

\* the class ids consumed so far: the arguments of the _merge_classes calls
\* that allocated a new class (-1 is the unknown marker, not a class id)
Consumed ==
    {merge_history[k].c1 : k \in {j \in DOMAIN merge_history :
                                     merge_history[j].c1 # merge_history[j].c2}}
      \cup {merge_history[k].c2 : k \in {j \in DOMAIN merge_history :
                                           merge_history[j].c1 # merge_history[j].c2}}

\* the class ids in the shape vector s
ClassesIn(s) == {s[i] : i \in DOMAIN s}

\* C19: a class id consumed by a merge occurs afterwards in no shape
\* returned by an inference rule, in no recorded shape vector and as no key
\* of class_sizes.
ConsumedNeverReturns ==
    \A c \in Consumed \ {-1} :
        /\ c \notin ClassesIn(last_assign.rhs_corr)
        /\ \A v \in DOMAIN array_shape_classes : c \notin ClassesIn(array_shape_classes[v])
        /\ c \notin DOMAIN class_sizes

----------------------------------------------------------------------------
(* C20 *)

\* C20: in every state class_sizes[0] is the list [1], class 0 was an
\* argument of no _merge_classes call of the run (from broadcast or from
\* dot), and 0 occurs in no recorded shape vector.
ClassZeroReserved ==
    /\ 0 \in DOMAIN class_sizes
    /\ class_sizes[0] = << ConstSize(1) >>
    /\ \A k \in DOMAIN merge_history :
          merge_history[k].c1 # 0 /\ merge_history[k].c2 # 0
    /\ \A k \in DOMAIN merge_calls : merge_calls[k].c1 # 0 /\ merge_calls[k].c2 # 0
    /\ \A v \in DOMAIN array_shape_classes : 0 \notin ClassesIn(array_shape_classes[v])
    /\ 0 \notin ClassesIn(last_assign.rhs_corr)

\* a broadcast whose first operand was left-padded has returned: the running
\* class started as 0 at dimension 0 and took the other operand's class, two
\* classes were merged at a later dimension, and class 0 is as it was made
ClassZeroReservedWitness ==
    /\ exc = "none"
    /\ \E k \in 1..Len(broadcast_calls) :
          /\ Len(broadcast_calls[k].eqs) = 2
          /\ Len(broadcast_calls[k].out_eq) = 2
          /\ broadcast_calls[k].eqs[1][1] = 0
          /\ broadcast_calls[k].eqs[2][1] # 0
          /\ broadcast_calls[k].out_eq[1] = broadcast_calls[k].eqs[2][1]
    /\ \E k \in 1..Len(merge_calls) : merge_calls[k].c1 # merge_calls[k].c2
    /\ class_sizes[0] = << ConstSize(1) >>

============================================================================
